---- MODULE Spec2Model ----
(***************************************************************************)
(* Tree error rate over JSON-derived trees (zss_json.py, ted_cer.py).      *)
(*                                                                         *)
(* Two state machines share this module:                                   *)
(*   Spec       tree_error_rate / distance_with_cer: the Zhang-Shasha      *)
(*              dynamic program, one step per keyroot pair;                *)
(*   SpecBuild  json_to_tree: the stack loop, one step per popped pair.    *)
(*                                                                         *)
(* Numbers.  Costs are Python floats; here every cost held in a table is   *)
(* an exact rational with denominator Scale, stored as its numerator (a    *)
(* cost of 1 is stored as Scale, a cost of 1/3 as Scale \div 3).           *)
(* Labels are strings, modelled as tuples of one-character strings; the    *)
(* IPA letters of the tests are written "O" (open o), "G" (script g) and   *)
(* "E" (ash).                                                              *)
(***************************************************************************)
EXTENDS Integers, Sequences, FiniteSets, TLC

\* ------------------------------------------------------------------ bounds
\* the largest tree drawn exhaustively (every shape, every labelling)
MaxNodes == 3

\* Denominator of every stored cost: the least common multiple of the label
\* lengths 1..5, so that every character error rate is a whole numerator.
Scale == 3 * 4 * 5

\* ------------------------------------------------------------------ helpers
Min2(a, b) == IF a <= b THEN a ELSE b

RECURSIVE SumSeq(_)
SumSeq(s) == IF s = <<>> THEN 0 ELSE Head(s) + SumSeq(Tail(s))

\* (mutation: max for min)
MaxOf(costs) == CHOOSE c \in {costs[k] : k \in DOMAIN costs} : \A k \in DOMAIN costs : c >= costs[k]

\* Python's min(costs)
MinOf(costs) == CHOOSE c \in {costs[k] : k \in DOMAIN costs} : \A k \in DOMAIN costs : c <= costs[k]

\* (mutation: the last position holding v)
IndexOf_last(costs, v) == (CHOOSE k \in DOMAIN costs : costs[k] = v /\ \A h \in (k+1)..Len(costs) : costs[h] # v) - 1

\* Python's costs.index(v), 0-based: the first position holding v
IndexOf(costs, v) == (CHOOSE k \in DOMAIN costs : costs[k] = v /\ \A h \in 1..(k-1) : costs[h] # v) - 1

\* ------------------------------------------------------------------ Node
\* zss.Node(label, children); None is the empty tuple.
Node(label, children) == <<label, children>>
None == <<>>
get_label(node) == node[1]
get_children(node) == node[2]

\* the labels of the exhaustively drawn trees: cer("a", "ab") = 1, cer("ab", "a") = 1/2
Labels == {<<"a">>, <<"a", "b">>}

RECURSIVE TreesOf(_), ForestsOf(_)
\* every tree with exactly n nodes over Labels
TreesOf(n) == IF n = 0 THEN {} ELSE {Node(l, f) : l \in Labels, f \in ForestsOf(n - 1)}
\* every ordered forest with exactly n nodes over Labels
ForestsOf(n) ==
    IF n = 0 THEN {<<>>}
    ELSE UNION {{<<t>> \o f : t \in TreesOf(k), f \in ForestsOf(n - k)} : k \in 1..n}

GenericTrees == UNION {TreesOf(n) : n \in 1..MaxNodes}

\* ------------------------------------------------------------------ count_nodes
RECURSIVE count_nodes(_)
count_nodes(node) ==
    IF node = None THEN 0
    ELSE 1 + SumSeq([k \in DOMAIN get_children(node) |-> count_nodes(get_children(node)[k])])

\* ------------------------------------------------------------------ AnnotatedTree
\* The annotator is zss.AnnotatedTree, imported by ted_cer.py and not part of
\* the repository; it is modelled from the specification's data model: nodes in
\* postorder with index 0 a placeholder, lmds, ascending keyroots.
RECURSIVE PostOrder(_)
PostOrder(node) ==
    LET RECURSIVE forest(_)
        forest(f) == IF f = <<>> THEN <<>> ELSE PostOrder(Head(f)) \o forest(Tail(f))
    IN forest(get_children(node)) \o <<node>>

\* In postorder the left-most leaf descendant of a node is the first node of the
\* node's span, so lmds[i] is i minus the size of the subtree at i, plus one.
AnnotatedTree(root) ==
    LET nodes == PostOrder(root)
        size == Len(nodes)
        lmds == [i \in 1..size |-> i - Len(PostOrder(nodes[i])) + 1]
        keyrootSet == {i \in 1..size : \A j \in (i+1)..size : lmds[j] # lmds[i]}
        RECURSIVE sorted(_, _)
        sorted(k, acc) == IF k > size THEN acc
                          ELSE sorted(k + 1, IF k \in keyrootSet THEN Append(acc, k) ELSE acc)
    IN [nodes |-> nodes, lmds |-> lmds, keyroots |-> sorted(1, <<>>), size |-> size]

\* ------------------------------------------------------------------ cost primitives
\* the fallback label distance of zss_json.py
strdist(a, b) == IF a = b THEN 0 ELSE 1

\* Levenshtein distance of two character tuples, row by row
Levenshtein(a, b) ==
    LET RECURSIVE cells(_, _, _)
        \* the row of a[1..i] from the row prev of a[1..i-1]; acc holds columns 0..j-1
        cells(i, prev, acc) ==
            LET j == Len(acc)
            IN IF j > Len(b) THEN acc
               ELSE cells(i, prev, Append(acc,
                        Min2(Min2(prev[j + 1] + 1, acc[j] + 1),
                             prev[j] + (IF a[i] = b[j] THEN 0 ELSE 1))))
        RECURSIVE rows(_, _)
        rows(i, prev) == IF i > Len(a) THEN prev ELSE rows(i + 1, cells(i, prev, <<i>>))
    IN rows(1, [j \in 1..(Len(b) + 1) |-> j - 1])[Len(b) + 1]

\* jiwer.cer(reference, hypothesis), in units of 1/Scale: character edits over the
\* reference length.  jiwer is an external primitive "returning a value in
\* [0, oo)" that "can exceed 1 for very short or empty strings": an empty
\* reference has no finite quotient and is given a value above 1.
cer(reference, hypothesis) ==
    IF Len(reference) = 0 THEN Scale * (Len(hypothesis) + 1)
    ELSE (Scale * Levenshtein(reference, hypothesis)) \div Len(reference)

\* The cost models a caller can pass: each is (insert_cost, remove_cost, update_cost).
\*   "label_dist"  the lambdas tree_error_rate passes to distance_with_cer
\*   "unit"        zss.simple_distance's unit costs
\*   "skew", "dear"  custom models for direct calls of distance_with_cer
\*   "neg"         a custom model whose remove_cost returns a negative value
CostModels == {"label_dist", "unit", "skew", "dear", "neg"}

insert_cost(cm, node) ==
    CASE cm = "label_dist" -> strdist(<<>>, get_label(node))
      [] cm = "unit" -> 1
      [] cm = "skew" -> 2
      [] cm = "dear" -> 1
      [] cm = "neg" -> 1

remove_cost(cm, node) ==
    CASE cm = "label_dist" -> strdist(get_label(node), <<>>)
      [] cm = "unit" -> 1
      [] cm = "skew" -> 1
      [] cm = "dear" -> 1
      [] cm = "neg" -> 0 - 1

update_cost(cm, a, b) ==
    CASE cm = "label_dist" -> strdist(get_label(a), get_label(b))
      [] cm = "unit" -> IF get_label(a) = get_label(b) THEN 0 ELSE 1
      [] cm = "skew" -> IF get_label(a) = get_label(b) THEN 0 ELSE 3
      [] cm = "dear" -> IF get_label(a) = get_label(b) THEN 1 ELSE 3
      [] cm = "neg" -> IF get_label(a) = get_label(b) THEN 0 ELSE 1

\* zss.distance charges update_cost unweighted
plain_relabel_cost(cm, node1, node2) == Scale * update_cost(cm, node1, node2)

\* (mutation: the clamp min(cer, 1) is left out)
cer_relabel_cost_unclamped(cm, node1, node2) ==
    IF update_cost(cm, node1, node2) > 0
    THEN update_cost(cm, node1, node2) * cer(get_label(node1), get_label(node2))
    ELSE Scale * update_cost(cm, node1, node2)

\* (mutation: the similarity 1 - cer is used as the weight)
cer_relabel_cost_similarity(cm, node1, node2) ==
    IF update_cost(cm, node1, node2) > 0
    THEN update_cost(cm, node1, node2)
            * (Scale - Min2(cer(get_label(node1), get_label(node2)), Scale))
    ELSE Scale * update_cost(cm, node1, node2)

\* (mutation: max(cer, 1) for min(cer, 1))
cer_relabel_cost_max(cm, node1, node2) ==
    IF update_cost(cm, node1, node2) > 0
    THEN LET c == cer(get_label(node1), get_label(node2))
         IN update_cost(cm, node1, node2) * (IF c > Scale THEN c ELSE Scale)
    ELSE Scale * update_cost(cm, node1, node2)

\* distance_with_cer: a nonzero update cost is multiplied by min(cer, 1)
cer_relabel_cost(cm, node1, node2) ==
    IF update_cost(cm, node1, node2) > 0
    THEN update_cost(cm, node1, node2) * Min2(cer(get_label(node1), get_label(node2)), Scale)
    ELSE Scale * update_cost(cm, node1, node2)

relabel_cost(cm, weighted, node1, node2) ==
    IF weighted THEN cer_relabel_cost(cm, node1, node2) ELSE plain_relabel_cost(cm, node1, node2)

\* ------------------------------------------------------------------ Operation
REMOVE == "remove"
INSERT == "insert"
UPDATE == "update"
MATCH == "match"
\* zss.Operation(type, arg1, arg2); a node is named by its postorder index, 0 is None
Operation(type, arg1, arg2) == <<type, arg1, arg2>>

\* ------------------------------------------------------------------ treedist(i, j)
\* "only need to check if x is an ancestor of i and y is an ancestor of j":
\* both nodes lie on the left-most paths of the keyroots i and j
\* (mutation: the boundary is taken one position too far right)
boundary_off_by_one(l, k, off) == l[k] - off

\* the last forest position left of the subtree of node k: l(k) - 1, as an fd index
boundary(l, k, off) == l[k] - 1 - off

\* (mutation: the test forgets the second tree)
on_left_paths_first_only(Al, Bl, i, j, xi, yj) == Al[i] = Al[xi]

on_left_paths(Al, Bl, i, j, xi, yj) == Al[i] = Al[xi] /\ Bl[j] = Bl[yj]

\* (mutation: the script of the forest left of the two subtrees is dropped)
reuse_script_memo_only(prefix, memo) == memo

\* partial_ops[p][q] + operations[x+ioff][y+joff]
reuse_script(prefix, memo) == prefix \o memo

\* (mutation: the keyroots are visited from the largest down)
keyroot_at_descending(keyroots, k) == keyroots[Len(keyroots) + 1 - k]

\* for i in A.keyroots: the k-th keyroot the loop visits
keyroot_at(keyroots, k) == keyroots[k]

\* One call of treedist: tabs = [treedists, operations] before, the same after,
\* with the call's local tables fd and partial_ops and the memo entries the call
\* wrote (writes) and read in the reuse branch (reads).
treedist(A, B, cm, weighted, tabs, i, j) ==
    LET Al == A.lmds
        Bl == B.lmds
        An == A.nodes
        Bn == B.nodes
        m == i - Al[i] + 2
        n == j - Bl[j] + 2
        ioff == Al[i] - 1
        joff == Bl[j] - 1
        zero == [fd |-> [c \in (0..(m-1)) \X (0..(n-1)) |-> 0],
                 partial_ops |-> [c \in (0..(m-1)) \X (0..(n-1)) |-> <<>>],
                 treedists |-> tabs.treedists,
                 operations |-> tabs.operations,
                 writes |-> {},
                 reads |-> {}]
        RECURSIVE removes(_, _, _)
        \* for x in range(lo, hi + 1): the first column.  Like every loop of this
        \* operator, the range is split in halves and the first half is finished
        \* before the second starts (fd[0][0] is never written: reading it has
        \* TLC compute the table so far), which keeps the evaluation shallow
        removes(s, lo, hi) ==
            IF lo > hi THEN s
            ELSE IF lo = hi
            THEN [s EXCEPT
                    !.fd[<<lo, 0>>] = s.fd[<<lo-1, 0>>] + Scale * remove_cost(cm, An[lo+ioff]),
                    !.partial_ops[<<lo, 0>>] =
                        s.partial_ops[<<lo-1, 0>>] \o <<Operation(REMOVE, lo+ioff, 0)>>]
            ELSE LET t == removes(s, lo, (lo + hi) \div 2)
                 IN IF t.fd[<<0, 0>>] = 0 THEN removes(t, ((lo + hi) \div 2) + 1, hi) ELSE t
        RECURSIVE inserts(_, _, _)
        \* for y in range(lo, hi + 1): the first row
        inserts(s, lo, hi) ==
            IF lo > hi THEN s
            ELSE IF lo = hi
            THEN [s EXCEPT
                    !.fd[<<0, lo>>] = s.fd[<<0, lo-1>>] + Scale * insert_cost(cm, Bn[lo+joff]),
                    !.partial_ops[<<0, lo>>] =
                        s.partial_ops[<<0, lo-1>>] \o <<Operation(INSERT, 0, lo+joff)>>]
            ELSE LET t == inserts(s, lo, (lo + hi) \div 2)
                 IN IF t.fd[<<0, 0>>] = 0 THEN inserts(t, ((lo + hi) \div 2) + 1, hi) ELSE t
        cell(s, x, y) ==
            LET node1 == An[x+ioff]
                node2 == Bn[y+joff]
            IN IF on_left_paths(Al, Bl, i, j, x+ioff, y+joff)
               THEN LET costs == <<s.fd[<<x-1, y>>] + Scale * remove_cost(cm, node1),
                                   s.fd[<<x, y-1>>] + Scale * insert_cost(cm, node2),
                                   s.fd[<<x-1, y-1>>] + relabel_cost(cm, weighted, node1, node2)>>
                        best == MinOf(costs)
                        min_index == IndexOf(costs, best)
                        ops == IF min_index = 0
                               THEN s.partial_ops[<<x-1, y>>] \o <<Operation(REMOVE, x+ioff, 0)>>
                               ELSE IF min_index = 1
                               THEN s.partial_ops[<<x, y-1>>] \o <<Operation(INSERT, 0, y+joff)>>
                               ELSE s.partial_ops[<<x-1, y-1>>] \o
                                    <<Operation(IF best = s.fd[<<x-1, y-1>>] THEN MATCH ELSE UPDATE,
                                                x+ioff, y+joff)>>
                    IN [s EXCEPT !.fd[<<x, y>>] = best,
                                 !.partial_ops[<<x, y>>] = ops,
                                 !.operations[<<x+ioff, y+joff>>] = ops,
                                 !.treedists[<<x+ioff, y+joff>>] = best,
                                 !.writes = @ \cup {<<x+ioff, y+joff>>}]
               ELSE LET p == boundary(Al, x+ioff, ioff)
                        q == boundary(Bl, y+joff, joff)
                        costs == <<s.fd[<<x-1, y>>] + Scale * remove_cost(cm, node1),
                                   s.fd[<<x, y-1>>] + Scale * insert_cost(cm, node2),
                                   s.fd[<<p, q>>] + s.treedists[<<x+ioff, y+joff>>]>>
                        best == MinOf(costs)
                        min_index == IndexOf(costs, best)
                        ops == IF min_index = 0
                               THEN s.partial_ops[<<x-1, y>>] \o <<Operation(REMOVE, x+ioff, 0)>>
                               ELSE IF min_index = 1
                               THEN s.partial_ops[<<x, y-1>>] \o <<Operation(INSERT, 0, y+joff)>>
                               ELSE reuse_script(s.partial_ops[<<p, q>>],
                                                 s.operations[<<x+ioff, y+joff>>])
                    IN [s EXCEPT !.fd[<<x, y>>] = best, !.partial_ops[<<x, y>>] = ops,
                                 !.reads = @ \cup {<<x+ioff, y+joff>>}]
        RECURSIVE row(_, _, _, _)
        \* for y in range(lo, hi + 1), in row x: the cells in ascending order
        row(s, x, lo, hi) ==
            IF lo > hi THEN s
            ELSE IF lo = hi THEN cell(s, x, lo)
            ELSE LET t == row(s, x, lo, (lo + hi) \div 2)
                 IN IF t.fd[<<0, 0>>] = 0 THEN row(t, x, ((lo + hi) \div 2) + 1, hi) ELSE t
        RECURSIVE fill(_, _, _)
        \* for x in range(lo, hi + 1): for y in range(1, n)
        fill(s, lo, hi) ==
            IF lo > hi THEN s
            ELSE IF lo = hi THEN row(s, lo, 1, n - 1)
            ELSE LET t == fill(s, lo, (lo + hi) \div 2)
                 IN IF t.fd[<<0, 0>>] = 0 THEN fill(t, ((lo + hi) \div 2) + 1, hi) ELSE t
        first_col == removes(zero, 1, m - 1)
        first_row == inserts(first_col, 1, n - 1)
        final == IF first_row.fd[<<0, 0>>] = 0 THEN fill(first_row, 1, m - 1) ELSE first_row
    IN final

\* ------------------------------------------------------------------ distance
\* The whole engine as a function: annotate, run treedist over every keyroot
\* pair (A's keyroots outside, B's inside), return the entry of the two roots.
distance(ref, hyp, cm, weighted) ==
    LET TA == AnnotatedTree(ref)
        TB == AnnotatedTree(hyp)
        zero == [treedists |-> [c \in (0..TA.size) \X (0..TB.size) |-> 0],
                 operations |-> [c \in (0..TA.size) \X (0..TB.size) |-> <<>>]]
        na == Len(TA.keyroots)
        nb == Len(TB.keyroots)
        RECURSIVE loop(_, _, _)
        \* for i in A.keyroots: for j in B.keyroots, the pairs numbered lo..hi in
        \* that order.  The range is split in halves and the first half is
        \* finished before the second starts (the placeholder entry is never
        \* written: reading it has TLC compute the tables so far)
        loop(tabs, lo, hi) ==
            IF lo > hi THEN tabs
            ELSE IF lo = hi
            THEN treedist(TA, TB, cm, weighted, tabs,
                          keyroot_at(TA.keyroots, 1 + ((lo - 1) \div nb)),
                          keyroot_at(TB.keyroots, 1 + ((lo - 1) % nb)))
            ELSE LET t == loop(tabs, lo, (lo + hi) \div 2)
                 IN IF t.treedists[<<0, 0>>] = 0 THEN loop(t, ((lo + hi) \div 2) + 1, hi) ELSE t
        final == loop(zero, 1, na * nb)
    IN [value |-> final.treedists[<<TA.size, TB.size>>],
        ops |-> final.operations[<<TA.size, TB.size>>]]

\* ------------------------------------------------------------------ inputs
\* Trees of the unit tests (test.py), written as the trees json_to_tree builds.
Leaf(label) == Node(label, <<>>)
L_a == <<"a">>
L_b == <<"b">>
L_c == <<"c">>
L_d == <<"d">>
T_a_bc == Node(L_a, <<Leaf(L_b), Leaf(L_c)>>)
T_a_bd == Node(L_a, <<Leaf(L_b), Leaf(L_d)>>)
T_a_bcd == Node(L_a, <<Leaf(L_b), Leaf(L_c), Leaf(L_d)>>)
T_a_b == Node(L_a, <<Leaf(L_b)>>)
T_d_bc == Node(L_d, <<Leaf(L_b), Leaf(L_c)>>)
T_a_b_c == Node(L_a, <<Node(L_b, <<Leaf(L_c)>>)>>)
T_a == Leaf(L_a)

\* entry(english(word(w1), pronunciation(p1)), spanish(word(w2), pronunciation(p2)))
Entry(w1, p1, w2, p2) ==
    Node(<<"e","n","t","r","y">>,
         <<Node(<<"e","n","g">>, <<Node(<<"w","o","r","d">>, <<Leaf(w1)>>),
                                  Node(<<"p","r","o","n">>, <<Leaf(p1)>>)>>),
           Node(<<"s","p","a">>, <<Node(<<"w","o","r","d">>, <<Leaf(w2)>>),
                                  Node(<<"p","r","o","n">>, <<Leaf(p2)>>)>>)>>)
T_dog == Entry(<<"d","o","g">>, <<"d","O","G">>, <<"p","e","r","r","o">>, <<"p","e","r","o">>)
T_cat == Entry(<<"c","a","t">>, <<"k","E","t">>, <<"g","a","t","o">>, <<"g","a","t","o">>)
T_dog2 == Entry(<<"d","o","g">>, <<"d","o","G">>, <<"p","e","r","r","o">>, <<"p","e","r","o">>)
T_dog3 == Entry(<<"d","o","g">>, <<"d","o","G">>, <<"p","e","r","r","a">>, <<"p","e","r","a">>)
\* entry(english(word(cat)), spanish(word(gato)))
T_cat_short ==
    Node(<<"e","n","t","r","y">>,
         <<Node(<<"e","n","g">>, <<Node(<<"w","o","r","d">>, <<Leaf(<<"c","a","t">>)>>)>>),
           Node(<<"s","p","a">>, <<Node(<<"w","o","r","d">>, <<Leaf(<<"g","a","t","o">>)>>)>>)>>)

\* one-node trees whose labels have a character error rate above 1 ("a" against
\* "bab" is 2) or an empty label
T_bab == Leaf(<<"b", "a", "b">>)
T_empty_label == Leaf(<<>>)
T_a_b_empty == Node(L_a, <<Leaf(L_b), Leaf(<<>>)>>)
LabelPairs ==
    {<<T_a, T_bab>>, <<T_bab, T_a>>, <<T_a, T_empty_label>>, <<T_empty_label, T_a>>,
     <<T_a_b, T_a_b_empty>>, <<T_a_b_empty, T_a_b>>}

\* (reference, hypothesis) pairs of the unit tests
ScenarioPairs ==
    {<<T_a_bc, T_a_bd>>, <<T_a_bc, T_a_bcd>>, <<T_a_bc, T_a_b>>, <<T_a_bc, T_d_bc>>,
     <<T_a_bc, T_a_b_c>>, <<T_dog, T_cat>>, <<T_dog, T_cat_short>>, <<T_dog, T_dog2>>,
     <<T_dog, T_dog3>>, <<T_dog, T_dog>>}

\* what json_to_tree returns for arguments that are no mapping, and a one-node tree
EmptyPairs == {<<T_a, None>>, <<None, T_a>>, <<None, None>>, <<T_a_bc, None>>}

\* pairs run under the cost model with a negative remove_cost
NegPairs == {<<T_a_bc, T_a>>, <<T_a, T_a_bc>>, <<T_a_bc, T_a_bd>>, <<T_a, T_a>>}

\* one call: the trees, the entry point and its flags
Call(ref, hyp, fn, bonus, ro, cm) ==
    [ref |-> ref, hyp |-> hyp, fn |-> fn, substring_bonus |-> bonus,
     return_operations |-> ro, cm |-> cm]

Inputs ==
    {Call(r, h, "tree_error_rate", b, FALSE, "label_dist") :
        r \in GenericTrees, h \in GenericTrees, b \in BOOLEAN}
    \cup {Call(r, h, "distance_with_cer", FALSE, FALSE, cm) :
        r \in GenericTrees, h \in GenericTrees, cm \in {"skew", "dear"}}
    \cup {Call(p[1], p[2], "tree_error_rate", b, ro, "label_dist") :
        p \in ScenarioPairs \cup LabelPairs \cup EmptyPairs, b \in BOOLEAN, ro \in BOOLEAN}
    \cup {Call(p[1], p[2], "distance_with_cer", FALSE, ro, cm) :
        p \in ScenarioPairs \cup LabelPairs \cup EmptyPairs, ro \in BOOLEAN,
        cm \in {"label_dist", "skew", "dear"}}
    \cup {Call(p[1], p[2], "distance_with_cer", FALSE, ro, "neg") :
        p \in NegPairs, ro \in BOOLEAN}

\* ------------------------------------------------------------------ state
VARIABLES
    in,          \* the call being made (arguments)
    pc,          \* "call", "keyroots", "return", "reduce", "done", "fault"
    engine,      \* which engine runs and with which costs: [weighted, cm]
    A, B,        \* the annotated trees
    ki, kj,      \* positions of the two keyroot loops
    treedists,   \* memo of tree distances, by postorder index pair
    operations,  \* memo of edit scripts, by postorder index pair
    dist,        \* what the engine returned: [value, ops]
    rate,        \* what tree_error_rate returned: [num, den], the rational num / den
    fd,          \* the forest-distance table of the latest treedist call
    partial_ops, \* the edit scripts of the latest treedist call, cell by cell
    hist,        \* history: [written, reused, unsolved], the memo entries written so
                 \* far, read by the reuse branch so far, and read before being written
    json_obj,    \* json_to_tree: the argument
    bpc,         \* json_to_tree: "idle", "init", "loop", "done"
    build        \* json_to_tree: [heap, stack, root], the nodes made so far, the
                 \* pending (node, value) pairs and the root (0 is None)

vars == <<in, pc, engine, A, B, ki, kj, treedists, operations, dist, rate, fd, partial_ops, hist,
          json_obj, bpc, build>>
evars == <<in, pc, engine, A, B, ki, kj, treedists, operations, dist, rate, fd, partial_ops, hist>>
lvars == <<fd, partial_ops, hist>>
bvars == <<json_obj, bpc, build>>

NoTree == [nodes |-> <<>>, lmds |-> <<>>, keyroots |-> <<>>, size |-> 0]
NoDist == [value |-> 0, ops |-> <<>>]
NoRate == [num |-> 0, den |-> 0]
NoBuild == [heap |-> <<>>, stack |-> <<>>, root |-> 0]
NoHist == [written |-> {}, reused |-> {}, unsolved |-> {}]

Init ==
    /\ in \in Inputs
    /\ pc = "call"
    /\ engine = [weighted |-> FALSE, cm |-> "unit"]
    /\ A = NoTree
    /\ B = NoTree
    /\ ki = 0
    /\ kj = 0
    /\ treedists = <<>>
    /\ operations = <<>>
    /\ dist = NoDist
    /\ rate = NoRate
    /\ fd = <<>>
    /\ partial_ops = <<>>
    /\ hist = NoHist
    /\ json_obj = <<>>
    /\ bpc = "idle"
    /\ build = NoBuild

\* (mutation: the substring_bonus test inverted)
EngineOf_inverted(call) ==
    IF call.fn = "tree_error_rate"
    THEN IF ~call.substring_bonus THEN [weighted |-> TRUE, cm |-> "label_dist"]
         ELSE [weighted |-> FALSE, cm |-> "unit"]
    ELSE [weighted |-> TRUE, cm |-> call.cm]

\* tree_error_rate picks the engine: distance_with_cer with the label_dist
\* lambdas when substring_bonus, else zss.simple_distance (unit costs, no CER).
\* A direct call of distance_with_cer runs the weighted engine on the given costs.
EngineOf(call) ==
    IF call.fn = "tree_error_rate"
    THEN IF call.substring_bonus THEN [weighted |-> TRUE, cm |-> "label_dist"]
         ELSE [weighted |-> FALSE, cm |-> "unit"]
    ELSE [weighted |-> TRUE, cm |-> call.cm]

\* (mutation: the two trees are annotated into each other's place)
Annotate_swapped ==
    /\ pc = "call"
    /\ in.ref # None /\ in.hyp # None
    /\ engine' = EngineOf(in)
    /\ A' = AnnotatedTree(in.hyp)
    /\ B' = AnnotatedTree(in.ref)
    /\ LET size_a == A'.size + 1
           size_b == B'.size + 1
       IN /\ treedists' = [c \in (0..(size_a-1)) \X (0..(size_b-1)) |-> 0]
          /\ operations' = [c \in (0..(size_a-1)) \X (0..(size_b-1)) |-> <<>>]
    /\ ki' = 1
    /\ kj' = 1
    /\ pc' = "keyroots"
    /\ UNCHANGED bvars
    /\ UNCHANGED lvars
    /\ UNCHANGED <<in, dist, rate>>

\* A, B = AnnotatedTree(A, get_children), AnnotatedTree(B, get_children);
\* the zero tables.  len(A.nodes) counts the placeholder at index 0.
Annotate ==
    /\ pc = "call"
    /\ in.ref # None /\ in.hyp # None
    /\ engine' = EngineOf(in)
    /\ A' = AnnotatedTree(in.ref)
    /\ B' = AnnotatedTree(in.hyp)
    /\ LET size_a == A'.size + 1
           size_b == B'.size + 1
       IN /\ treedists' = [c \in (0..(size_a-1)) \X (0..(size_b-1)) |-> 0]
          /\ operations' = [c \in (0..(size_a-1)) \X (0..(size_b-1)) |-> <<>>]
    /\ ki' = 1
    /\ kj' = 1
    /\ pc' = "keyroots"
    /\ UNCHANGED bvars
    /\ UNCHANGED lvars
    /\ UNCHANGED <<in, dist, rate>>

\* A tree that is None has no children to traverse: get_children(None) is an
\* attribute fault, raised before any table exists.
AnnotateFault ==
    /\ pc = "call"
    /\ in.ref = None \/ in.hyp = None
    /\ engine' = EngineOf(in)
    /\ pc' = "fault"
    /\ UNCHANGED bvars
    /\ UNCHANGED lvars
    /\ UNCHANGED <<in, A, B, ki, kj, treedists, operations, dist, rate>>

\* for i in A.keyroots: for j in B.keyroots: treedist(i, j)
TreedistStep ==
    /\ pc = "keyroots"
    /\ \E tabs \in {treedist(A, B, engine.cm, engine.weighted,
                               [treedists |-> treedists, operations |-> operations],
                               keyroot_at(A.keyroots, ki), keyroot_at(B.keyroots, kj))} :
          /\ treedists' = tabs.treedists
          /\ operations' = tabs.operations
          /\ fd' = tabs.fd
          /\ partial_ops' = tabs.partial_ops
          /\ hist' = [written |-> hist.written \cup tabs.writes,
                      reused |-> hist.reused \cup tabs.reads,
                      unsolved |-> hist.unsolved \cup (tabs.reads \ hist.written)]
    /\ IF kj < Len(B.keyroots)
       THEN /\ kj' = kj + 1
            /\ UNCHANGED <<ki, pc>>
       ELSE IF ki < Len(A.keyroots)
       THEN /\ ki' = ki + 1
            /\ kj' = 1
            /\ UNCHANGED pc
       ELSE /\ pc' = "return"
            /\ UNCHANGED <<ki, kj>>
    /\ UNCHANGED bvars
    /\ UNCHANGED <<in, engine, A, B, dist, rate>>

\* return treedists[-1][-1] (and operations[-1][-1] when asked for)
EngineReturn ==
    /\ pc = "return"
    /\ dist' = [value |-> treedists[<<A.size, B.size>>],
                ops |-> IF engine.weighted /\ in.return_operations
                        THEN operations[<<A.size, B.size>>] ELSE <<>>]
    /\ pc' = IF in.fn = "tree_error_rate" THEN "reduce" ELSE "done"
    /\ UNCHANGED bvars
    /\ UNCHANGED lvars
    /\ UNCHANGED <<in, engine, A, B, ki, kj, treedists, operations, rate>>

\* (mutation: the hypothesis is counted)
divisor_hyp(ref_tree, hyp_tree) == count_nodes(hyp_tree)

\* the divisor of tree_error_rate: count_nodes(ref_tree)
divisor(ref_tree, hyp_tree) == count_nodes(ref_tree)

\* (mutation: the distance is taken out of the pair before the division)
returns_number_always(call) == TRUE

\* what the engine hands back to tree_error_rate is a number: simple_distance
\* always returns one, distance_with_cer returns a (distance, operations) pair
\* when return_operations is passed on to it
returns_number(call) == ~(call.substring_bonus /\ call.return_operations)

\* return dist / count_nodes(ref_tree)
Reduce ==
    /\ pc = "reduce"
    /\ returns_number(in)
    /\ rate' = [num |-> dist.value, den |-> Scale * divisor(in.ref, in.hyp)]
    /\ pc' = "done"
    /\ UNCHANGED bvars
    /\ UNCHANGED lvars
    /\ UNCHANGED <<in, engine, A, B, ki, kj, treedists, operations, dist>>

\* with operations requested dist is a (distance, operations) tuple: tuple / int
\* is a type fault
ReduceFault ==
    /\ pc = "reduce"
    /\ ~returns_number(in)
    /\ pc' = "fault"
    /\ UNCHANGED bvars
    /\ UNCHANGED lvars
    /\ UNCHANGED <<in, engine, A, B, ki, kj, treedists, operations, dist, rate>>

Next ==
    \/ Annotate
    \/ AnnotateFault
    \/ TreedistStep
    \/ EngineReturn
    \/ Reduce
    \/ ReduceFault

Spec == Init /\ [][Next]_vars

\* ------------------------------------------------------------------ json_to_tree
\* A parsed JSON value: a string, a list of values, or a mapping, which is the
\* sequence of its (key, value) items in insertion order, keys distinct.
JStr(s) == <<"str", s>>
JList(elems) == <<"list", elems>>
JDict(items) == <<"dict", items>>
is_dict(v) == v[1] = "dict"
is_list(v) == v[1] = "list"

\* the Python object a leaf takes as its label: the string itself, or the value
\* (a list inside a list is not expanded: it becomes the label of a leaf)
as_label(v) == IF v[1] = "str" THEN v[2] ELSE v

\* the largest JSON value drawn exhaustively, counted in values and keys
MaxJson == 6
Strings == {<<"a">>, <<"b">>}

RECURSIVE JsonOf(_), JsonSeqs(_), JsonItems(_, _)
\* every value of weight n: a string weighs 1, a list 1 plus its elements, a
\* mapping 1 plus, for each item, 1 plus its value
JsonOf(n) ==
    IF n < 1 THEN {}
    ELSE (IF n = 1 THEN {JStr(x) : x \in Strings} ELSE {})
         \cup {JList(e) : e \in JsonSeqs(n - 1)}
         \cup {JDict(i) : i \in JsonItems(n - 1, {})}
JsonSeqs(n) ==
    IF n = 0 THEN {<<>>}
    ELSE UNION {{<<v>> \o r : v \in JsonOf(k), r \in JsonSeqs(n - k)} : k \in 1..n}
JsonItems(n, used) ==
    IF n = 0 THEN {<<>>}
    ELSE UNION {{<< <<key, v>> >> \o r : v \in JsonOf(k), r \in JsonItems(n - 1 - k, used \cup {key})} :
                    key \in Strings \ used, k \in 1..(n - 1)}

\* the documents of the tests and of the __main__ example (abridged), and one
\* whose pending pairs are popped in the reverse of the document order
J_a_bc == JDict(<< <<L_a, JList(<<JStr(L_b), JStr(L_c)>>)>> >>)
J_a_b_c == JDict(<< <<L_a, JDict(<< <<L_b, JStr(L_c)>> >>)>> >>)
J_entry ==
    JDict(<< << <<"e">>, JDict(<< << <<"e","n">>, JDict(<< <<L_a, JStr(L_b)>>, <<L_c, JStr(L_d)>> >>)>>,
                                 << <<"e","s">>, JDict(<< <<L_a, JStr(L_c)>>, <<L_c, JStr(L_a)>> >>)>> >>)>> >>)
J_dictionary ==
    JDict(<< << <<"d">>, JList(<<JDict(<< <<L_a, JStr(L_b)>>,
                                          <<L_b, JList(<<JStr(L_c), JStr(L_d)>>)>>,
                                          <<L_c, JStr(L_a)>> >>),
                                 JStr(L_d),
                                 JDict(<< <<L_d, JList(<<JStr(L_a), JList(<<JStr(L_b)>>)>>)>>,
                                          <<L_a, JDict(<<>>)>> >>)>>)>>,
             << <<"x">>, JDict(<< <<L_b, JStr(L_b)>> >>)>> >>)
ScenarioJson == {J_a_bc, J_a_b_c, J_entry, J_dictionary}

\* the arguments drawn: every value of weight up to max, and the documents
JsonInputs(max) == UNION {JsonOf(n) : n \in 1..max} \cup ScenarioJson

\* Node(label): a new node with no children, named by its position in the heap
new_node(b, label) == [b EXCEPT !.heap = Append(@, [label |-> label, children |-> <<>>])]
last_node(b) == Len(b.heap)

\* parent.addkid(child): the child is appended to the parent's children
addkid(b, parent, child) == [b EXCEPT !.heap[parent].children = Append(@, child)]

\* stack.append((node, value))
push(b, node, value) == [b EXCEPT !.stack = Append(@, <<node, value>>)]

\* (mutation: the loop over the root mapping has no break)
root_items_no_break(items) == items

\* the items the first loop visits: it breaks after the first
root_items(items) == SubSeq(items, 1, Min2(1, Len(items)))

\* (mutation: the list is walked from its end)
elements_reversed(children) == [k \in DOMAIN children[2] |-> children[2][Len(children[2]) + 1 - k]]

\* for child in children
elements(children) == children[2]

\* (mutation: a value that is no mapping becomes a root of its own)
root_mapping_any(obj) == IF is_dict(obj) THEN obj[2] ELSE << <<as_label(obj), JList(<<>>)>> >>

\* if isinstance(json_obj, dict): the items the first loop may visit, none for
\* a value that is no mapping
root_mapping(obj) == IF is_dict(obj) THEN obj[2] ELSE <<>>

\* root = None; for key, value in json_obj.items(): root = Node(key); push; break
build_start(obj) ==
    LET RECURSIVE visit(_, _)
        visit(b, items) ==
            IF items = <<>> THEN b
            ELSE LET made == new_node(b, Head(items)[1])
                 IN visit(push([made EXCEPT !.root = last_node(made)],
                               last_node(made), Head(items)[2]),
                          Tail(items))
    IN visit(NoBuild, root_items(root_mapping(obj)))

\* for k, v in mapping.items(): child_node = Node(k); parent.addkid(child_node);
\* stack.append((child_node, v))
add_items(b, parent, items) ==
    LET RECURSIVE visit(_, _)
        visit(c, rest) ==
            IF rest = <<>> THEN c
            ELSE LET made == new_node(c, Head(rest)[1])
                 IN visit(push(addkid(made, parent, last_node(made)),
                               last_node(made), Head(rest)[2]),
                          Tail(rest))
    IN visit(b, items)

\* one turn of the while loop: pop a (parent, children) pair and attach what the
\* value holds
pop_pair(b) ==
    LET top == b.stack[Len(b.stack)]
        parent == top[1]
        children == top[2]
        popped == [b EXCEPT !.stack = SubSeq(@, 1, Len(@) - 1)]
        RECURSIVE each(_, _)
        each(c, rest) ==
            IF rest = <<>> THEN c
            ELSE IF is_dict(Head(rest))
            THEN each(add_items(c, parent, Head(rest)[2]), Tail(rest))
            ELSE LET made == new_node(c, as_label(Head(rest)))
                 IN each(addkid(made, parent, last_node(made)), Tail(rest))
    IN IF is_list(children) THEN each(popped, elements(children))
       ELSE IF is_dict(children) THEN add_items(popped, parent, children[2])
       ELSE LET made == new_node(popped, as_label(children))
            IN addkid(made, parent, last_node(made))

RECURSIVE heap_tree(_, _)
\* the tree a node of the heap stands for; node 0 is None
heap_tree(heap, n) ==
    IF n = 0 THEN None
    ELSE Node(heap[n].label, [k \in DOMAIN heap[n].children |-> heap_tree(heap, heap[n].children[k])])

\* json_to_tree as a function: run the loop until the stack is empty
json_to_tree(obj) ==
    LET RECURSIVE run(_)
        run(b) == IF b.stack = <<>> THEN b ELSE run(pop_pair(b))
        final == run(build_start(obj))
    IN heap_tree(final.heap, final.root)

BuildInit ==
    /\ json_obj \in JsonInputs(MaxJson)
    /\ bpc = "init"
    /\ build = NoBuild
    /\ in = Call(None, None, "tree_error_rate", FALSE, FALSE, "label_dist")
    /\ pc = "idle"
    /\ engine = [weighted |-> FALSE, cm |-> "unit"]
    /\ A = NoTree
    /\ B = NoTree
    /\ ki = 0
    /\ kj = 0
    /\ treedists = <<>>
    /\ operations = <<>>
    /\ dist = NoDist
    /\ rate = NoRate
    /\ fd = <<>>
    /\ partial_ops = <<>>
    /\ hist = NoHist

BuildStart ==
    /\ bpc = "init"
    /\ build' = build_start(json_obj)
    /\ bpc' = "loop"
    /\ UNCHANGED <<json_obj, evars>>

PopPair ==
    /\ bpc = "loop"
    /\ build.stack # <<>>
    /\ build' = pop_pair(build)
    /\ UNCHANGED <<json_obj, bpc, evars>>

\* return root
BuildReturn ==
    /\ bpc = "loop"
    /\ build.stack = <<>>
    /\ bpc' = "done"
    /\ UNCHANGED <<json_obj, build, evars>>

BuildNext ==
    \/ BuildStart
    \/ PopPair
    \/ BuildReturn

SpecBuild == BuildInit /\ [][BuildNext]_vars

\* the tree json_to_tree returned
Built == heap_tree(build.heap, build.root)

\* ------------------------------------------------------------------ edit mappings
\* A node is named by its path from the root (the child positions followed).
RECURSIVE Paths(_)
Paths(node) ==
    {<<>>} \cup UNION {{<<k>> \o p : p \in Paths(get_children(node)[k])} :
                         k \in DOMAIN get_children(node)}

RECURSIVE NodeAt(_, _)
NodeAt(node, p) == IF p = <<>> THEN node ELSE NodeAt(get_children(node)[Head(p)], Tail(p))

\* p is a proper ancestor of q
IsAncestor(p, q) == Len(p) < Len(q) /\ SubSeq(q, 1, Len(p)) = p

\* p lies to the left of q: neither is above the other and p branches off first
IsLeftOf(p, q) ==
    \E k \in 1..Min2(Len(p), Len(q)) :
        /\ SubSeq(p, 1, k - 1) = SubSeq(q, 1, k - 1)
        /\ p[k] < q[k]

\* the pair (p, q) may join the pair (p2, q2) in one mapping
Compatible(p, q, p2, q2) ==
    /\ (p = p2) <=> (q = q2)
    /\ IsAncestor(p, p2) <=> IsAncestor(q, q2)
    /\ IsAncestor(p2, p) <=> IsAncestor(q2, q)
    /\ IsLeftOf(p, p2) <=> IsLeftOf(q, q2)

MinSet(S) == CHOOSE v \in S : \A w \in S : v <= w

RECURSIVE SumInsert(_, _, _)
SumInsert(cm, hyp, Q) ==
    IF Q = {} THEN 0
    ELSE LET q == CHOOSE q \in Q : TRUE
         IN Scale * insert_cost(cm, NodeAt(hyp, q)) + SumInsert(cm, hyp, Q \ {q})

\* The least cost of a valid edit mapping of ref onto hyp: unmapped nodes of ref
\* pay remove, unmapped nodes of hyp pay insert, mapped pairs pay the relabel cost.
MinMappingCost(ref, hyp, cm, weighted) ==
    LET RECURSIVE best(_, _)
        best(R, M) ==
            IF R = {}
            THEN SumInsert(cm, hyp, Paths(hyp) \ {e[2] : e \in M})
            ELSE LET p == CHOOSE p \in R : TRUE
                     free == {q \in Paths(hyp) : \A e \in M : Compatible(p, q, e[1], e[2])}
                 IN MinSet({Scale * remove_cost(cm, NodeAt(ref, p)) + best(R \ {p}, M)}
                           \cup {relabel_cost(cm, weighted, NodeAt(ref, p), NodeAt(hyp, q))
                                    + best(R \ {p}, M \cup {<<p, q>>}) : q \in free})
    IN best(Paths(ref), {})

\* ------------------------------------------------------------------ single edits
RECURSIVE RelabelAt(_, _, _)
\* the tree with the label of the node at path p changed to l
RelabelAt(node, p, l) ==
    IF p = <<>> THEN Node(l, get_children(node))
    ELSE Node(get_label(node),
              [get_children(node) EXCEPT ![Head(p)] = RelabelAt(@, Tail(p), l)])

RECURSIVE DeleteAt(_, _)
\* the tree with the node at the non-empty path p deleted: its children take its
\* place among the children of its parent
DeleteAt(node, p) ==
    LET kids == get_children(node)
        k == Head(p)
    IN IF Len(p) = 1
       THEN Node(get_label(node),
                 SubSeq(kids, 1, k - 1) \o get_children(kids[k]) \o SubSeq(kids, k + 1, Len(kids)))
       ELSE Node(get_label(node), [kids EXCEPT ![k] = DeleteAt(@, Tail(p))])

\* h is t with one node deleted (the root only when it has a single child)
IsDeletion(t, h) ==
    \/ \E p \in Paths(t) \ {<<>>} : h = DeleteAt(t, p)
    \/ Len(get_children(t)) = 1 /\ h = get_children(t)[1]

\* h is t with the label of one node changed
IsRelabel(t, h) ==
    \E p \in Paths(t) \cap Paths(h) :
        /\ get_label(NodeAt(t, p)) # get_label(NodeAt(h, p))
        /\ h = RelabelAt(t, p, get_label(NodeAt(h, p)))

OneEdit(t, h) == IsRelabel(t, h) \/ IsDeletion(t, h) \/ IsDeletion(h, t)

\* ------------------------------------------------------------------ claims
\* the engine has just returned its distance: to tree_error_rate, which is about
\* to divide it, or to the caller of distance_with_cer
Returned ==
    /\ pc = (IF in.fn = "tree_error_rate" THEN "reduce" ELSE "done")
    /\ in.ref # None /\ in.hyp # None

\* the oracle is evaluated on trees of at most MaxNodes + 1 nodes
Small == count_nodes(in.ref) <= MaxNodes + 1 /\ count_nodes(in.hyp) <= MaxNodes + 1

\* C1: the whole-tree distance the engine returns (treedists at the pair of roots
\* once every keyroot pair is processed) is the least total cost of a valid edit
\* mapping between the two trees, for every cost model.
C1_DistanceIsMinMapping ==
    (Returned /\ Small) =>
        /\ dist.value = treedists[<<A.size, B.size>>]
        /\ dist.value = MinMappingCost(in.ref, in.hyp, engine.cm, engine.weighted)

\* a(b, c) against a(b(c)) under unit costs was computed, and costs 2
C1_Witness ==
    /\ pc = "done" /\ in.ref = T_a_bc /\ in.hyp = T_a_b_c
    /\ engine = [weighted |-> FALSE, cm |-> "unit"]
    /\ dist.value = 2 * Scale

UnitRun == in.fn = "tree_error_rate" /\ ~in.substring_bonus
WeightedRun == in.fn = "tree_error_rate" /\ in.substring_bonus

\* C2: a tree compared with itself has distance 0 and error rate 0, without and
\* with CER weighting, and the call returns.
C2_SelfDistanceZero ==
    (in.fn = "tree_error_rate" /\ in.ref = in.hyp /\ in.ref # None) =>
        /\ pc = "fault" => (in.substring_bonus /\ in.return_operations)
        /\ pc \in {"reduce", "done"} => dist.value = 0
        /\ pc = "done" => (rate.num = 0 /\ rate.den > 0)

\* the 11-node dictionary tree against itself, CER-weighted, returned rate 0
C2_Witness ==
    /\ pc = "done" /\ WeightedRun /\ in.ref = T_dog /\ in.hyp = T_dog
    /\ rate.num = 0 /\ rate.den = Scale * 11

\* C3: under unit costs the distance is symmetric: the value returned for (A, B)
\* is the value the engine computes for (B, A).
C3_UnitSymmetric ==
    (Returned /\ UnitRun) => dist.value = distance(in.hyp, in.ref, "unit", FALSE).value

\* a pair of different sizes: the 11-node tree against the 7-node one, distance 6
C3_Witness ==
    /\ pc = "done" /\ UnitRun /\ in.ref = T_dog /\ in.hyp = T_cat_short
    /\ dist.value = 6 * Scale

\* C4: tree_error_rate returns exactly distance / node_count(reference), in both
\* modes; the node count is the number of nodes of the reference.
C4_RateIsDistanceOverRefSize ==
    (pc = "done" /\ in.fn = "tree_error_rate") =>
        /\ rate.den > 0
        /\ rate.num * Scale * Cardinality(Paths(in.ref)) = dist.value * rate.den
        /\ dist.value = distance(in.ref, in.hyp, engine.cm, engine.weighted).value
        /\ engine.weighted = in.substring_bonus

\* reference of 3 nodes, hypothesis of 4: a(b, c) against a(b, c, d) is 1/3, not 1/4
C4_Witness ==
    /\ pc = "done" /\ in.fn = "tree_error_rate" /\ in.ref = T_a_bc /\ in.hyp = T_a_bcd
    /\ rate = [num |-> Scale, den |-> 3 * Scale]

C6_Charge(cm, a, b) ==
    LET base == update_cost(cm, a, b)
        c == cer(get_label(a), get_label(b))
    IN IF base = 0 THEN 0 ELSE IF c > Scale THEN base * Scale ELSE base * c

\* C6: the weighted engine charges update_cost * min(CER, 1) for a relabel (0 when
\* update_cost is 0): two one-node trees are at distance min(remove + insert,
\* that charge), never more than the base cost, and the 11-node reference that
\* differs in one label of CER 1/3 has error rate 1/33.
C6_WeightedRelabelCharge ==
    /\ (Returned /\ engine.weighted /\ count_nodes(in.ref) = 1 /\ count_nodes(in.hyp) = 1) =>
            /\ dist.value = Min2(Scale * (remove_cost(engine.cm, in.ref)
                                            + insert_cost(engine.cm, in.hyp)),
                                 C6_Charge(engine.cm, in.ref, in.hyp))
            /\ dist.value <= Min2(Scale * (remove_cost(engine.cm, in.ref)
                                            + insert_cost(engine.cm, in.hyp)),
                                  Scale * update_cost(engine.cm, in.ref, in.hyp))
    /\ (pc = "done" /\ WeightedRun /\ in.ref = T_dog /\ in.hyp = T_dog2) =>
            (3 * dist.value = Scale /\ 33 * rate.num = rate.den)

\* "a" against "bab": the CER is 2, the charge is the base cost 1
C6_Witness ==
    /\ pc = "done" /\ WeightedRun /\ in.ref = T_a /\ in.hyp = T_bab
    /\ cer(get_label(in.ref), get_label(in.hyp)) = 2 * Scale
    /\ dist.value = Scale

DictionaryRun == pc = "done" /\ in.fn = "tree_error_rate" /\ in.ref = T_dog /\ in.hyp = T_cat

\* C7 as stated: the dictionary reference has 11 nodes, the unit-cost distance to
\* the cat/gato tree is 4, and the CER-weighted rate is 4/11.
C7_Original ==
    DictionaryRun =>
        /\ count_nodes(in.ref) = 11
        /\ ~in.substring_bonus => dist.value = 4 * Scale
        /\ in.substring_bonus => 11 * rate.num = 4 * rate.den

\* C7 amended: 11 nodes; unit-cost distance 4 and unit-cost rate 4/11; the
\* CER-weighted distance is 1 + 1 + 4/5 + 3/4 = 71/20, a rate of 71/220.
C7_DictionaryScenario ==
    DictionaryRun =>
        /\ count_nodes(in.ref) = 11
        /\ ~in.substring_bonus => (dist.value = 4 * Scale /\ 11 * rate.num = 4 * rate.den)
        /\ in.substring_bonus => (20 * dist.value = 71 * Scale /\ 220 * rate.num = 71 * rate.den)

\* the weighted run of the dictionary scenario returned, below 4/11
C7_Witness == DictionaryRun /\ in.substring_bonus /\ 11 * rate.num < 4 * rate.den

\* C10 as stated: with an empty tree the distance is the size of the other tree,
\* from a base case and without a fault; a one-node reference against an empty
\* hypothesis has distance 1 and error rate 1.
C10_EmptyTreeDistance ==
    (pc \in {"done", "fault"} /\ ((in.ref = None) # (in.hyp = None))) =>
        /\ pc = "done"
        /\ dist.value = Scale * (count_nodes(in.ref) + count_nodes(in.hyp))
        /\ (in.fn = "tree_error_rate" /\ in.ref = T_a /\ in.hyp = None) => rate.num = rate.den

BuiltFromMapping == bpc = "done" /\ is_dict(json_obj) /\ json_obj[2] # <<>>

\* the argument is a mapping with at least one key
BuiltFromMappingArg == is_dict(json_obj) /\ json_obj[2] # <<>>

\* C8: for a mapping with one or more keys the root is labelled by the first key
\* and the tree is built from that key's value alone: it is the tree of the
\* mapping cut down to its first item, whatever the other items are.
C8_FirstKeyOnly ==
    BuiltFromMapping =>
        /\ get_label(Built) = json_obj[2][1][1]
        /\ Built = json_to_tree(JDict(<<json_obj[2][1]>>))

\* a mapping of two keys whose second item holds a mapping of its own
C8_Witness ==
    /\ BuiltFromMapping /\ json_obj = J_dictionary
    /\ get_label(Built) = <<"d">>
    /\ count_nodes(Built) = 13

RECURSIVE ChildrenOf(_)
\* the children a node gets from the value it was built from, in the order of
\* the input: a mapping gives a child per key, a list a child per element with
\* the keys of a mapping element spliced in at its place, a string one leaf
ChildrenOf(v) ==
    LET of_items(items) == [k \in DOMAIN items |-> Node(items[k][1], ChildrenOf(items[k][2]))]
        RECURSIVE of_elems(_)
        of_elems(e) ==
            IF e = <<>> THEN <<>>
            ELSE (IF is_dict(Head(e)) THEN of_items(Head(e)[2]) ELSE <<Leaf(as_label(Head(e)))>>)
                 \o of_elems(Tail(e))
    IN IF is_list(v) THEN of_elems(v[2])
       ELSE IF is_dict(v) THEN of_items(v[2])
       ELSE <<Leaf(as_label(v))>>

\* C9: every node's children stand in the input's iteration order (keys in
\* insertion order, list elements by position, the keys of a mapping inside a
\* list spliced in at its position), although pending pairs are popped last-in
\* first-out.
C9_ChildOrderIsInputOrder ==
    BuiltFromMapping => Built = Node(json_obj[2][1][1], ChildrenOf(json_obj[2][1][2]))

\* the example document: a list holding mappings, strings and a list, with
\* several pairs pending at once
C9_Witness ==
    /\ BuiltFromMapping /\ json_obj = J_dictionary
    /\ Len(get_children(Built)) = 6
    /\ get_label(get_children(Built)[4]) = L_d
    /\ get_children(get_children(Built)[5]) = <<Leaf(L_a), Leaf(JList(<<JStr(L_b)>>))>>


\* C11 as stated: under the cost functions tree_error_rate passes to the engine
\* (label_dist('', label), label_dist(label, ''), label_dist(label_a, label_b),
\* label_dist the built-in 0/1 comparison) inserting or removing a node costs
\* exactly 1 whatever its label, relabelling costs 0 for equal labels and 1
\* otherwise; so a hypothesis that is the reference with one node inserted or
\* deleted is at distance exactly 1.
C11_StructuralEditCostsOne ==
    (Returned /\ engine.cm = "label_dist") =>
        /\ \A p \in Paths(in.ref) : remove_cost(engine.cm, NodeAt(in.ref, p)) = 1
        /\ \A q \in Paths(in.hyp) : insert_cost(engine.cm, NodeAt(in.hyp, q)) = 1
        /\ \A p \in Paths(in.ref), q \in Paths(in.hyp) :
                update_cost(engine.cm, NodeAt(in.ref, p), NodeAt(in.hyp, q))
                    = (IF get_label(NodeAt(in.ref, p)) = get_label(NodeAt(in.hyp, q)) THEN 0 ELSE 1)
        /\ (IsDeletion(in.ref, in.hyp) \/ IsDeletion(in.hyp, in.ref)) => dist.value = Scale


\* a treedist call has run under the cost model whose remove_cost is negative
BadCostCalled ==
    /\ in.fn = "distance_with_cer" /\ in.cm = "neg"
    /\ pc \in {"keyroots", "return", "done", "fault"}
    /\ fd # <<>>

\* C12 as stated: when a cost function returns a negative value the call fails
\* at that point: the value is written neither into the forest-distance table
\* nor into the tree-distance table, and no distance is returned.
C12_BadCostSurfaced ==
    BadCostCalled =>
        /\ pc = "fault"
        /\ \A c \in DOMAIN fd : fd[c] >= 0
        /\ \A c \in DOMAIN treedists : treedists[c] >= 0
        /\ dist = NoDist


\* the postorder number of the node at path p: one more than the number of nodes
\* below it or to its left
PostIndex(tree, p) ==
    1 + Cardinality({q \in Paths(tree) : IsAncestor(p, q) \/ IsLeftOf(q, p)})

RECURSIVE LeftmostLeaf(_, _)
\* the path of the left-most leaf below the node at path p
LeftmostLeaf(tree, p) ==
    IF get_children(NodeAt(tree, p)) = <<>> THEN p ELSE LeftmostLeaf(tree, p \o <<1>>)

\* the annotation T is a sound annotation of the tree
WellAnnotated(tree, T) ==
    LET size == Cardinality(Paths(tree))
    IN /\ T.size = size /\ Len(T.nodes) = size /\ Len(T.lmds) = size
       /\ {PostIndex(tree, p) : p \in Paths(tree)} = 1..size
       /\ \A p \in Paths(tree) :
            /\ T.nodes[PostIndex(tree, p)] = NodeAt(tree, p)
            /\ T.lmds[PostIndex(tree, p)] = PostIndex(tree, LeftmostLeaf(tree, p))
            /\ \A q \in Paths(tree) : IsAncestor(p, q) => PostIndex(tree, q) < PostIndex(tree, p)
       /\ \A i \in 1..size : T.lmds[i] <= i
       /\ T.lmds[PostIndex(tree, <<>>)] = 1
       /\ \A k \in 1..(Len(T.keyroots) - 1) : T.keyroots[k] < T.keyroots[k + 1]
       /\ T.keyroots # <<>> /\ T.keyroots[Len(T.keyroots)] = PostIndex(tree, <<>>)
       /\ \A i \in 1..size :
            (\E k \in DOMAIN T.keyroots : T.keyroots[k] = i)
                <=> ~(\E j \in (i + 1)..size : T.lmds[j] = T.lmds[i])

\* C13: the annotations the engine works on (A of the first tree, B of the
\* second) number the nodes 1..size in postorder, every descendant before its
\* ancestor; lmds[i] is the number of the left-most leaf below i, at most i, and 1
\* at the root; keyroots ascends, ends with the root, and holds i exactly when no
\* larger index has the same left-most leaf.  A and B are set once, by the
\* annotation, and are checked in the state it leaves, before the first treedist.
C13_AnnotationInvariants ==
    (pc = "keyroots" /\ fd = <<>>) =>
        /\ WellAnnotated(in.ref, A)
        /\ WellAnnotated(in.hyp, B)

\* the 11-node dictionary tree against the 7-node one: keyroots 4, 9, 10, 11
C13_Witness ==
    /\ pc = "keyroots" /\ fd = <<>> /\ in.ref = T_dog /\ in.hyp = T_cat_short
    /\ A.size = 11 /\ B.size = 7
    /\ A.keyroots = <<4, 9, 10, 11>>
    /\ A.lmds = <<1, 1, 3, 3, 1, 6, 6, 8, 8, 6, 1>>
    /\ B.keyroots = <<6, 7>>


\* the keyroot pair of the latest treedist call, after a call has run
CallRan == pc \in {"keyroots", "return", "reduce", "done"} /\ fd # <<>>
LastCall ==
    IF pc # "keyroots" THEN <<keyroot_at(A.keyroots, Len(A.keyroots)), keyroot_at(B.keyroots, Len(B.keyroots))>>
    ELSE IF kj > 1 THEN <<keyroot_at(A.keyroots, ki), keyroot_at(B.keyroots, kj - 1)>>
    ELSE <<keyroot_at(A.keyroots, ki - 1), keyroot_at(B.keyroots, Len(B.keyroots))>>

\* the inner cells of the latest call's tables
LastCells ==
    LET i == LastCall[1]
        j == LastCall[2]
    IN (1..(i - A.lmds[i] + 1)) \X (1..(j - B.lmds[j] + 1))

\* the latest call at the cell c, recomputed from its tables: the three
\* candidates (remove, insert, relabel or reuse), the scripts each would leave,
\* the value and the script the call left
Cell(c) ==
    LET i == LastCall[1]
        j == LastCall[2]
        ioff == A.lmds[i] - 1
        joff == B.lmds[j] - 1
        x == c[1]
        y == c[2]
        node1 == A.nodes[x + ioff]
        node2 == B.nodes[y + joff]
        lineage == A.lmds[x + ioff] = A.lmds[i] /\ B.lmds[y + joff] = B.lmds[j]
        p == A.lmds[x + ioff] - 1 - ioff
        q == B.lmds[y + joff] - 1 - joff
        third == IF lineage
                 THEN fd[<<x - 1, y - 1>>] + relabel_cost(engine.cm, engine.weighted, node1, node2)
                 ELSE fd[<<p, q>>] + treedists[<<x + ioff, y + joff>>]
    IN [lineage |-> lineage,
        remove |-> fd[<<x - 1, y>>] + Scale * remove_cost(engine.cm, node1),
        insert |-> fd[<<x, y - 1>>] + Scale * insert_cost(engine.cm, node2),
        third |-> third,
        by_remove |-> partial_ops[<<x - 1, y>>] \o <<Operation(REMOVE, x + ioff, 0)>>,
        by_insert |-> partial_ops[<<x, y - 1>>] \o <<Operation(INSERT, 0, y + joff)>>,
        by_third |-> IF lineage
                     THEN partial_ops[<<x - 1, y - 1>>] \o
                          <<Operation(IF third = fd[<<x - 1, y - 1>>] THEN MATCH ELSE UPDATE,
                                      x + ioff, y + joff)>>
                     ELSE partial_ops[<<p, q>>] \o operations[<<x + ioff, y + joff>>],
        value |-> fd[c],
        script |-> partial_ops[c]]

\* C14: in every cell of every forest-distance table, in both branches, the
\* operation recorded is the first of remove, insert, relabel/match (or subtree
\* reuse) whose candidate equals the minimum: remove whenever its candidate is
\* the minimum, insert only when remove is strictly larger, the third only when
\* both are strictly larger.
C14_TieBreakOrder ==
    CallRan =>
        \A c \in LastCells :
            LET k == Cell(c)
            IN /\ k.value <= k.remove /\ k.value <= k.insert /\ k.value <= k.third
               /\ k.value \in {k.remove, k.insert, k.third}
               /\ k.remove = k.value => k.script = k.by_remove
               /\ (k.remove > k.value /\ k.insert = k.value) => k.script = k.by_insert
               /\ (k.remove > k.value /\ k.insert > k.value) => k.script = k.by_third


\* a call in which two candidates tied for the minimum in a cell of each branch
\* and the earlier one was recorded: remove ahead of relabel on the left-most
\* paths, insert ahead of subtree reuse off them
C14_Witness ==
    /\ CallRan
    /\ \E c \in LastCells :
            /\ Cell(c).lineage
            /\ Cell(c).remove = Cell(c).value /\ Cell(c).third = Cell(c).value
            /\ Cell(c).script = Cell(c).by_remove /\ Cell(c).script # Cell(c).by_third
    /\ \E c \in LastCells :
            /\ ~Cell(c).lineage
            /\ Cell(c).remove > Cell(c).value
            /\ Cell(c).insert = Cell(c).value /\ Cell(c).third = Cell(c).value
            /\ Cell(c).script = Cell(c).by_insert /\ Cell(c).script # Cell(c).by_third


\* what an operation of a script costs under the engine's cost model
OpCost(op) ==
    CASE op[1] = REMOVE -> Scale * remove_cost(engine.cm, A.nodes[op[2]])
      [] op[1] = INSERT -> Scale * insert_cost(engine.cm, B.nodes[op[3]])
      [] op[1] = UPDATE -> relabel_cost(engine.cm, engine.weighted, A.nodes[op[2]], B.nodes[op[3]])
      [] op[1] = MATCH -> 0

\* the script names every node of A in exactly one remove, update or match and
\* every node of B in exactly one insert, update or match, and nothing else
CompleteScript(ops) ==
    /\ \A x \in 1..A.size :
            Cardinality({k \in DOMAIN ops : ops[k][1] \in {REMOVE, UPDATE, MATCH} /\ ops[k][2] = x}) = 1
    /\ \A y \in 1..B.size :
            Cardinality({k \in DOMAIN ops : ops[k][1] \in {INSERT, UPDATE, MATCH} /\ ops[k][3] = y}) = 1
    /\ \A k \in DOMAIN ops :
            /\ ops[k][1] \in {REMOVE, INSERT, UPDATE, MATCH}
            /\ ops[k][1] = REMOVE => ops[k][3] = 0
            /\ ops[k][1] = INSERT => ops[k][2] = 0

\* C15: once distance_with_cer has run every keyroot pair, the script held for
\* the pair of roots (the one returned with return_operations=True) is a
\* complete edit script whose operation costs (remove_cost, insert_cost, the
\* weighted relabel cost, 0 for a match) add up to the distance returned.
C15_ScriptIsCompleteAndCostsDistance ==
    (pc \in {"return", "reduce", "done"} /\ engine.weighted) =>
        LET ops == operations[<<A.size, B.size>>]
        IN /\ CompleteScript(ops)
           /\ SumSeq([k \in DOMAIN ops |-> OpCost(ops[k])]) = treedists[<<A.size, B.size>>]
           /\ (pc # "return" /\ in.return_operations) =>
                    (dist.ops = ops /\ dist.value = treedists[<<A.size, B.size>>])

\* the dictionary scenario with operations requested: eleven operations, four of
\* them updates, costing 71/20 together
C15_Witness ==
    /\ pc = "done" /\ in.fn = "distance_with_cer" /\ in.return_operations
    /\ in.cm = "label_dist" /\ in.ref = T_dog /\ in.hyp = T_cat
    /\ Len(dist.ops) = 11
    /\ Cardinality({k \in DOMAIN dist.ops : dist.ops[k][1] = UPDATE}) = 4
    /\ 20 * dist.value = 71 * Scale


\* C16: with the keyroot pairs taken in ascending order, A's keyroots outside
\* and B's inside, every memo entry the reuse branch reads was written by a
\* keyroot pair processed strictly earlier: no reuse reads an entry that has not
\* been computed yet.
C16_ReuseReadsSolvedEntries ==
    /\ hist.unsolved = {}
    /\ hist.reused \subseteq hist.written

\* the dictionary scenario: the root pair reused the entries of the subtrees
\* solved before it, the pair of the two "spa" subtrees (10, 10) among them
C16_Witness ==
    /\ pc = "done" /\ in.ref = T_dog /\ in.hyp = T_cat
    /\ <<10, 10>> \in hist.reused
    /\ <<4, 9>> \in hist.reused
    /\ hist.unsolved = {}


\* the mapped pairs of a script that have a nonzero base relabel cost
RelabelledPairs(ops) ==
    {<<ops[k][2], ops[k][3]>> : k \in {h \in DOMAIN ops : ops[h][1] \in {UPDATE, MATCH}
            /\ update_cost(engine.cm, A.nodes[ops[h][2]], B.nodes[ops[h][3]]) > 0}}

\* C17: for the same insert, remove and update cost functions the CER-weighted
\* distance is never larger than the unweighted distance, and equals it when
\* every pair the weighted script relabels has a character error rate of 1 or
\* more; hence the rate with substring_bonus is never larger than the rate
\* without it.  The tables are final once the keyroot loops end.
C17_WeightedNeverLarger ==
    /\ (pc = "return" /\ engine.weighted) =>
            LET weighted == treedists[<<A.size, B.size>>]
                plain == distance(in.ref, in.hyp, engine.cm, FALSE).value
            IN /\ weighted <= plain
               /\ (\A e \in RelabelledPairs(operations[<<A.size, B.size>>]) :
                        cer(get_label(A.nodes[e[1]]), get_label(B.nodes[e[2]])) >= Scale)
                    => weighted = plain
    /\ (pc = "done" /\ WeightedRun) =>
            rate.num * Scale * count_nodes(in.ref)
                <= distance(in.ref, in.hyp, "unit", FALSE).value * rate.den

\* the test trees that differ in one label at CER 1/3: the weighted rate is 1/33
\* where the plain relabel costs 1
C17_Witness ==
    /\ pc = "done" /\ WeightedRun /\ in.ref = T_dog /\ in.hyp = T_dog2
    /\ 33 * rate.num = rate.den
    /\ 3 * dist.value = Scale
    /\ RelabelledPairs(operations[<<A.size, B.size>>]) = {<<3, 3>>}
    /\ plain_relabel_cost(engine.cm, A.nodes[3], B.nodes[3]) = Scale


\* C18: json_to_tree returns None (count_nodes 0), without any turn of its loop,
\* for an argument that is a list, a scalar or an empty mapping, and a tree of
\* one node or more exactly for a mapping with at least one key.
C18_NoTreeUnlessMapping ==
    /\ (bpc = "loop" /\ ~BuiltFromMappingArg) => (build.stack = <<>> /\ build.root = 0)
    /\ bpc = "done" =>
            /\ ~BuiltFromMappingArg => (Built = None /\ count_nodes(Built) = 0)
            /\ BuiltFromMappingArg => (Built # None /\ count_nodes(Built) >= 1)
            /\ (count_nodes(Built) >= 1) <=> BuiltFromMappingArg

\* a list at the top level, holding a mapping: no tree
C18_Witness ==
    /\ bpc = "done"
    /\ json_obj = JList(<<JDict(<< <<L_a, JStr(L_b)>> >>)>>)
    /\ Built = None
    /\ count_nodes(Built) = 0


\* a call of tree_error_rate on two trees has come to its end
RateCallEnded ==
    /\ in.fn = "tree_error_rate" /\ in.ref # None /\ in.hyp # None
    /\ pc \in {"done", "fault"}

\* C19: return_operations never changes a value tree_error_rate returns.  Without
\* substring_bonus the flag is ignored: the call returns the unit-cost rate,
\* the same number as without the flag.  With substring_bonus and the flag the
\* engine returns a (distance, operations) pair, whose division by the node
\* count is an error: no rate is returned.
C19_FlagNeverChangesRate ==
    RateCallEnded =>
        /\ pc = "fault" <=> (in.substring_bonus /\ in.return_operations)
        /\ pc = "fault" => (rate = NoRate /\ Len(dist.ops) >= 1)
        /\ pc = "done" => (dist.ops = <<>> /\ rate.den = Scale * count_nodes(in.ref))
        /\ (pc = "done" /\ in.return_operations) =>
                rate.num = distance(in.ref, in.hyp,
                                    EngineOf([in EXCEPT !.return_operations = FALSE]).cm,
                                    EngineOf([in EXCEPT !.return_operations = FALSE]).weighted).value

\* both cases at once are two runs; the witness is the failing one: the
\* dictionary scenario, weighted, with operations requested
C19_Witness ==
    /\ RateCallEnded /\ pc = "fault"
    /\ in.substring_bonus /\ in.return_operations
    /\ in.ref = T_dog /\ in.hyp = T_cat
    /\ Len(dist.ops) = 11 /\ 20 * dist.value = 71 * Scale
    /\ rate = NoRate

====
